---- MODULE Spec2Model ----
(***************************************************************************)
(* Model of the local knowledge store of the "chat with PDF" backend:      *)
(* chunk_text, load_db / save_db, ingest_pdf_to_db, search_db and retrieve *)
(* of backend/template/agent/tools/read_pdf.py, and the tenant paths built *)
(* by upload_pdf of backend/template/router/v1/ai.py.                      *)
(***************************************************************************)
EXTENDS Integers, Sequences, FiniteSets, TLC

\* ------------------------------------------------------------------------
\* Bounds of the model
\* ------------------------------------------------------------------------
\* longest text the chunker specification enumerates exhaustively
MaxLen == 4
\* largest window size the chunker specification enumerates
MaxWindow == 3
\* number of document identifiers drawn in one run of the store specification
MaxDocs == 2
\* number of documents in a store the ranking specification starts from
MaxStoreDocs == 2
\* length of the long text the chunker specification cuts with the defaults
ScenarioLen == 2500

\* ------------------------------------------------------------------------
\* Program constants
\* ------------------------------------------------------------------------
\* chunk_text(raw_text, max_chars=1200, overlap=150)
DefaultMaxChars == 1200
DefaultOverlap == 150

Min(a, b) == IF a <= b THEN a ELSE b
Max(a, b) == IF a >= b THEN a ELSE b

\* ------------------------------------------------------------------------
\* Text: a Python str is a sequence of characters
\* ------------------------------------------------------------------------
Chars == {"a", "b", " "}

\* str.isspace() of one character
IsSpace(c) == c = " "

RECURSIVE LStrip(_)
LStrip(s) ==
  IF s # <<>> /\ IsSpace(Head(s)) THEN LStrip(Tail(s)) ELSE s

RECURSIVE RStrip(_)
RStrip(s) ==
  IF s # <<>> /\ IsSpace(s[Len(s)]) THEN RStrip(SubSeq(s, 1, Len(s) - 1)) ELSE s

\* str.strip()
Strip(s) == RStrip(LStrip(s))

\* tokens[start:end] with 0 <= start <= end <= len(tokens)
Slice(tokens, start, end) == SubSeq(tokens, start + 1, end)

\* [c for c in chunks if c]
RECURSIVE NonEmpty(_)
NonEmpty(chunks) ==
  IF chunks = <<>> THEN <<>>
  ELSE IF Head(chunks) # <<>> THEN <<Head(chunks)>> \o NonEmpty(Tail(chunks))
       ELSE NonEmpty(Tail(chunks))

\* ------------------------------------------------------------------------
\* chunk_text: the statements of the loop body
\* ------------------------------------------------------------------------
\* end = min(start + max_chars, n)
WindowEnd(start, max_chars, n) == Min(start + max_chars, n)

WindowChunkOffByOne(tokens, start, end) == Strip(Slice(tokens, start + 1, end))

\* chunks.append("".join(tokens[start:end]).strip())
WindowChunk(tokens, start, end) == Strip(Slice(tokens, start, end))

NextStartNoOverlap(end, overlap) == end

\* start = max(0, end - overlap)
NextStart(end, overlap) == Max(0, end - overlap)

\* the while loop, from the state (start, chunks) to the list it leaves
RECURSIVE ChunkLoop(_, _, _, _, _)
ChunkLoop(tokens, start, chunks, max_chars, overlap) ==
  LET n == Len(tokens) IN
  IF ~(start < n) THEN chunks
  ELSE LET end == WindowEnd(start, max_chars, n)
           appended == Append(chunks, WindowChunk(tokens, start, end))
       IN IF end = n THEN appended
          ELSE ChunkLoop(tokens, NextStart(end, overlap), appended, max_chars, overlap)

\* chunk_text(text, max_chars, overlap)
ChunkText(text, max_chars, overlap) ==
  IF text = <<>> THEN <<>>
  ELSE NonEmpty(ChunkLoop(text, 0, <<>>, max_chars, overlap))

\* ------------------------------------------------------------------------
\* Strings built by the program: str(int), paths, identifiers
\* ------------------------------------------------------------------------
Digits == <<"0", "1", "2", "3", "4", "5", "6", "7", "8", "9">>

\* str(n) of a non-negative int: its decimal digits
RECURSIVE Str(_)
Str(n) ==
  IF n < 10 THEN <<Digits[n + 1]>>
  ELSE Str(n \div 10) \o <<Digits[(n % 10) + 1]>>

\* None, and the empty string, of an Optional[str]
None == <<>>

\* os.getcwd()
Cwd == <<"cwd">>

\* os.path.join(a, b) of a path and a relative component
PathJoin(a, b) == a \o <<"/">> \o b

GetUserDbPathSwapped(user_id, session_id, custom_path) ==
  IF custom_path # None THEN custom_path
  ELSE PathJoin(PathJoin(PathJoin(PathJoin(Cwd, <<"database">>),
                                  Str(session_id)), Str(user_id)),
                <<"rag_vector_db.json">>)

\* get_user_db_path(user_id, session_id, custom_path)
GetUserDbPath(user_id, session_id, custom_path) ==
  IF custom_path # None THEN custom_path
  ELSE PathJoin(PathJoin(PathJoin(PathJoin(Cwd, <<"database">>),
                                  Str(user_id)), Str(session_id)),
                <<"rag_vector_db.json">>)

\* get_db_path(custom_path)
GetDbPath(custom_path) ==
  IF custom_path # None THEN custom_path
  ELSE PathJoin(Cwd, <<"rag_demo_db.json">>)

\* upload_pdf: database_path = env.DATABASE_PATH + f"/{user_id}/{session_id}";
\* db_path = get_db_path(database_path + "/rag_vector_db.json")
UploadDbPath(root, user_id, session_id) ==
  GetDbPath(root \o <<"/">> \o Str(user_id) \o <<"/">> \o Str(session_id)
              \o <<"/", "rag_vector_db.json">>)

\* upload_pdf: file_path = env.UPDATE_PATH + f"/{user_id}/{session_id}/pdf"
\*                           + "/" + file.filename
UploadFilePath(user_id, session_id, filename) ==
  <<"uploads">> \o <<"/">> \o Str(user_id) \o <<"/">> \o Str(session_id)
    \o <<"/", "pdf">> \o <<"/">> \o filename

\* save_db: tmp = db_path + ".tmp"
TmpPath(db_path) == db_path \o <<".tmp">>

\* str(uuid.uuid4()): the k-th identifier drawn, distinct from every other
Uuid(k) == <<"uuid">> \o Str(k)

\* f"{doc_id}_{i}"
ChunkId(doc_id, i) == doc_id \o <<"_">> \o Str(i)

\* ------------------------------------------------------------------------
\* Embeddings and similarity
\* ------------------------------------------------------------------------
\* cosine_similarity sums over zip(a, b): the common prefix of the two vectors
RECURSIVE SumProd(_, _, _)
SumProd(a, b, k) ==
  IF k = 0 THEN 0 ELSE SumProd(a, b, k - 1) + a[k] * b[k]

Gcd(a, b) ==
  LET RECURSIVE G(_, _)
      G(x, y) == IF y = 0 THEN x ELSE G(y, x % y)
  IN G(a, b)

\* cosine_similarity(a, b) = dot / (sqrt(na) * sqrt(nb)), 0.0 when a norm is 0.
\* The real number is kept exactly, as the reduced fraction <<p, q>> of
\* sign(dot) * dot^2 / (na * nb), which orders and equates as the cosine does.
CosineSimilarity(a, b) ==
  LET k == Min(Len(a), Len(b))
      dot == SumProd(a, b, k)
      na == SumProd(a, a, k)
      nb == SumProd(b, b, k)
  IN IF na = 0 \/ nb = 0 \/ dot = 0 THEN <<0, 1>>
     ELSE LET g == Gcd(dot * dot, na * nb)
              sgn == IF dot < 0 THEN -1 ELSE 1
          IN <<sgn * ((dot * dot) \div g), (na * nb) \div g>>

\* x > y of two scores
ScoreGreater(x, y) == x[1] * y[2] > y[1] * x[2]

\* ------------------------------------------------------------------------
\* The JSON file of a store: what json.dump writes, piece by piece
\* ------------------------------------------------------------------------
\* a byte range never written (a hole left by writing past the end of a file)
NulTok == [tok |-> "nul"]
OpenTok == [tok |-> "open"]
CloseTok == [tok |-> "close"]
EndDocTok == [tok |-> "enddoc"]
DocTok(d) ==
  [tok |-> "doc", document_id |-> d.document_id,
   source_path |-> d.source_path, name |-> d.name]
ChunkTok(c) ==
  [tok |-> "chunk", chunk_id |-> c.chunk_id, text |-> c.text,
   embedding |-> c.embedding]

RECURSIVE ChunkToks(_)
ChunkToks(chunks) ==
  IF chunks = <<>> THEN <<>>
  ELSE <<ChunkTok(Head(chunks))>> \o ChunkToks(Tail(chunks))

RECURSIVE DocsToks(_)
DocsToks(docs) ==
  IF docs = <<>> THEN <<>>
  ELSE <<DocTok(Head(docs))>> \o ChunkToks(Head(docs).chunks) \o <<EndDocTok>>
         \o DocsToks(Tail(docs))

\* json.dump({"documents": docs}, f, ensure_ascii=False, indent=2)
JsonDump(docs) == <<OpenTok>> \o DocsToks(docs) \o <<CloseTok>>

\* json.load of the pieces between the opening and the closing one:
\* the documents read so far, the document being read, the pieces left
RECURSIVE ParseDocs(_, _, _)
ParseDocs(toks, docs, cur) ==
  IF toks = <<>>
    THEN IF cur = <<>> THEN [ok |-> TRUE, documents |-> docs]
         ELSE [ok |-> FALSE, documents |-> <<>>]
  ELSE LET t == Head(toks) IN
    IF t.tok = "doc" /\ cur = <<>>
      THEN ParseDocs(Tail(toks), docs,
                     <<[document_id |-> t.document_id, source_path |-> t.source_path,
                        name |-> t.name, chunks |-> <<>>]>>)
    ELSE IF t.tok = "chunk" /\ cur # <<>>
      THEN ParseDocs(Tail(toks), docs,
                     <<[cur[1] EXCEPT !.chunks =
                          Append(@, [chunk_id |-> t.chunk_id, text |-> t.text,
                                     embedding |-> t.embedding])]>>)
    ELSE IF t.tok = "enddoc" /\ cur # <<>>
      THEN ParseDocs(Tail(toks), Append(docs, cur[1]), <<>>)
    ELSE [ok |-> FALSE, documents |-> <<>>]

\* json.load(f): fails on anything but one complete serialization
JsonLoad(toks) ==
  IF Len(toks) >= 2 /\ toks[1].tok = "open" /\ toks[Len(toks)].tok = "close"
    THEN ParseDocs(SubSeq(toks, 2, Len(toks) - 1), <<>>, <<>>)
    ELSE [ok |-> FALSE, documents |-> <<>>]

\* ------------------------------------------------------------------------
\* The file system: directory entries name inodes, inodes hold the pieces
\* ------------------------------------------------------------------------
\* the function f without the key k
Without(f, k) == [x \in DOMAIN f \ {k} |-> f[x]]

\* the function f with f[k] = v
With(f, k, v) == [x \in DOMAIN f \cup {k} |-> IF x = k THEN v ELSE f[x]]

\* the content of the file named path
FileContent(fs, path) == fs.inodes[fs.names[path]]

\* load_db(db_path): the documents of the store, [] when the file is
\* missing, unreadable or malformed
LoadDb(fs, db_path) ==
  IF db_path \notin DOMAIN fs.names THEN <<>>
  ELSE LET data == JsonLoad(FileContent(fs, db_path))
       IN IF data.ok THEN data.documents ELSE <<>>

\* load_db(db_path) when open or json.load raises on a file that exists (no
\* permission, an I/O error, too many open files): the except clause prints
\* "Reinitializing" and returns {"documents": []}
LoadDbUnreadable(fs, db_path) == <<>>

\* f.write at offset off of a file: overwrites, or extends past a hole
WriteAt(content, off, tok) ==
  IF off < Len(content) THEN [content EXCEPT ![off + 1] = tok]
  ELSE content \o [i \in 1..(off - Len(content)) |-> NulTok] \o <<tok>>

\* an inode number not in use
FreshInode(used) == CHOOSE i \in 1..(Cardinality(used) + 1) : i \notin used

\* ------------------------------------------------------------------------
\* ingest_pdf_to_db: validation and the record
\* ------------------------------------------------------------------------
EmbeddingsValidNoCount(vectors, chunks) == vectors # <<>>

\* not (not vectors or len(vectors) != len(chunks))
EmbeddingsValid(vectors, chunks) ==
  vectors # <<>> /\ Len(vectors) = Len(chunks)

BuildRecordFromOne(doc_id, pdf_path, name, chunks, vectors) ==
  [document_id |-> doc_id,
   source_path |-> pdf_path,
   name |-> name,
   chunks |-> [i \in 1..Min(Len(chunks), Len(vectors)) |->
                 [chunk_id |-> ChunkId(doc_id, i),
                  text |-> chunks[i], embedding |-> vectors[i]]]]

\* record = {"document_id": ..., "chunks": [... for i, (ch, vec) in
\*           enumerate(zip(chunks, vectors))]}
BuildRecord(doc_id, pdf_path, name, chunks, vectors) ==
  [document_id |-> doc_id,
   source_path |-> pdf_path,
   name |-> name,
   chunks |-> [i \in 1..Min(Len(chunks), Len(vectors)) |->
                 [chunk_id |-> ChunkId(doc_id, i - 1),
                  text |-> chunks[i], embedding |-> vectors[i]]]]

\* ------------------------------------------------------------------------
\* search_db: ranking
\* ------------------------------------------------------------------------
\* for doc in docs: for ch in doc["chunks"]: results.append((score, txt, source))
RECURSIVE ScoreChunks(_, _, _)
ScoreChunks(q, source, chunks) ==
  IF chunks = <<>> THEN <<>>
  ELSE <<[score |-> CosineSimilarity(q, Head(chunks).embedding),
          text |-> Head(chunks).text, source |-> source]>>
         \o ScoreChunks(q, source, Tail(chunks))

RECURSIVE ScoreAll(_, _)
ScoreAll(q, docs) ==
  IF docs = <<>> THEN <<>>
  ELSE ScoreChunks(q, Head(docs).source_path, Head(docs).chunks)
         \o ScoreAll(q, Tail(docs))

\* one result put into a list already sorted, after the results that do not
\* score lower than it
RECURSIVE InsertDesc(_, _)
InsertDesc(sorted, r) ==
  IF sorted = <<>> THEN <<r>>
  ELSE IF ScoreGreater(r.score, Head(sorted).score) THEN <<r>> \o sorted
  ELSE <<Head(sorted)>> \o InsertDesc(Tail(sorted), r)

SortDescUnstable(results) ==
  LET RECURSIVE S(_, _)
      S(rest, acc) ==
        IF rest = <<>> THEN acc
        ELSE S(SubSeq(rest, 1, Len(rest) - 1), InsertDesc(acc, rest[Len(rest)]))
  IN S(results, <<>>)

\* results.sort(key=lambda x: x[0], reverse=True): stable, equal scores keep
\* their order
SortDesc(results) ==
  LET RECURSIVE S(_, _)
      S(rest, acc) ==
        IF rest = <<>> THEN acc
        ELSE S(Tail(rest), InsertDesc(acc, Head(rest)))
  IN S(results, <<>>)

\* results[:k] of a Python list, k of either sign
Take(results, k) ==
  IF k >= 0 THEN SubSeq(results, 1, Min(k, Len(results)))
  ELSE SubSeq(results, 1, Max(0, Len(results) + k))

ClampTopKNone(top_k) == top_k

\* max(1, top_k)
ClampTopK(top_k) == Max(1, top_k)

\* search_db(db_path, client, query, top_k); embedded is what
\* embed_texts(client, [query]) returns: [] on failure, [q] otherwise.
\* embed tells whether the embedding call was made and how it ended.
SearchDb(fs, db_path, embedded, top_k) ==
  LET docs == LoadDb(fs, db_path) IN
  IF docs = <<>> THEN [hits |-> <<>>, embed |-> "not_called"]
  ELSE IF embedded = <<>> THEN [hits |-> <<>>, embed |-> "failed"]
  ELSE [hits |-> Take(SortDesc(ScoreAll(embedded[1], docs)), ClampTopK(top_k)),
        embed |-> "ok"]

\* ------------------------------------------------------------------------
\* State
\* ------------------------------------------------------------------------
VARIABLES
  \* one call of chunk_text, statement by statement
  cpc,        \* position: "call", "while", "body", "done"
  ctext,      \* text (tokens = list(text))
  cmax,       \* max_chars
  cover,      \* overlap
  cstart,     \* start
  cend,       \* end
  cchunks,    \* chunks, before the final filter
  cresult,    \* the returned list
  \* the store and its processes
  fs,         \* the files: names (path -> inode) and inodes (inode -> pieces)
  wk,         \* per upload worker: where its upload_pdf call stands, its locals
  nextId,     \* how many uuid4 identifiers were drawn, plus one
  qres        \* the last retrieve call: its arguments and what it returned

chunkVars == <<cpc, ctext, cmax, cover, cstart, cend, cchunks, cresult>>

storeVars == <<fs, wk, nextId, qres>>

vars == <<cpc, ctext, cmax, cover, cstart, cend, cchunks, cresult,
          fs, wk, nextId, qres>>

\* ------------------------------------------------------------------------
\* Processes and inputs of the store
\* ------------------------------------------------------------------------
\* the worker processes serving POST /upload/pdf
Workers == {"w1", "w2"}

\* tenant keys (user_id, session_id)
TenantKeys == {<<1, 12>>, <<12, 1>>}

FileNames == {<<"a.pdf">>}

\* a text longer than one window
LongText == [i \in 1..(DefaultMaxChars + 1) |-> IF i % 7 = 0 THEN "b" ELSE "a"]

ShortText == <<"a", " ", "b">>

\* what extract_text_from_pdf returns: stripped text, "" when nothing is found
ExtractedTexts == {<<>>, ShortText, LongText}

\* what embed_texts(client, chunks) may return: [] on any failure, one vector
\* per text (two such answers are drawn), or a list of another length
EmbedOutcomes(chunks) ==
  {<<>>,
   [i \in 1..Len(chunks) |-> <<i, 1>>],
   [i \in 1..Len(chunks) |-> <<1, i>>],
   [i \in 1..(Len(chunks) + 1) |-> <<i, 1>>],
   [i \in 1..(Len(chunks) - 1) |-> <<i, 1>>]}

\* env.DATABASE_PATH, set to the directory get_user_db_path reads from
DatabaseRoot == PathJoin(Cwd, <<"database">>)

IdleWorker ==
  [pc |-> "idle", user_id |-> 0, session_id |-> 0, db_path |-> <<>>,
   raw_text |-> <<>>, chunks |-> <<>>, vectors |-> <<>>, record |-> <<>>,
   db |-> <<>>, fd |-> 0, off |-> 0, saved |-> FALSE, result |-> None]

NoQuery ==
  [kind |-> "none", user_id |-> 0, session_id |-> 0, top_k |-> 0,
   embed |-> "not_called", q |-> <<>>, hits |-> <<>>]

EmptyFs == [names |-> <<>>, inodes |-> <<>>]

ChunkIdle ==
  /\ cpc = "idle"
  /\ ctext = <<>>
  /\ cmax = 1
  /\ cover = 0
  /\ cstart = 0
  /\ cend = 0
  /\ cchunks = <<>>
  /\ cresult = <<>>

StoreIdle ==
  /\ fs = EmptyFs
  /\ wk = [w \in Workers |-> IdleWorker]
  /\ nextId = 1
  /\ qres = NoQuery

\* ------------------------------------------------------------------------
\* Inputs of the chunker specification
\* ------------------------------------------------------------------------
RECURSIVE TextsOfLen(_)
TextsOfLen(k) ==
  IF k = 0 THEN {<<>>}
  ELSE {Append(t, c) : t \in TextsOfLen(k - 1), c \in Chars}

Texts == UNION {TextsOfLen(k) : k \in 0..MaxLen}

\* the text of the end-to-end scenario: 2500 characters
ScenarioText == [i \in 1..ScenarioLen |-> IF i % 7 = 0 THEN "b" ELSE "a"]

\* max_chars > 0 and 0 <= overlap < max_chars
ValidParams == {<<m, o>> \in (1..MaxWindow) \X (0..MaxWindow) : o < m}

ChunkInputs ==
  {<<t, p[1], p[2]>> : t \in Texts, p \in ValidParams}
    \cup {<<ScenarioText, DefaultMaxChars, DefaultOverlap>>}

InitChunk ==
  /\ \E inp \in ChunkInputs :
       /\ ctext = inp[1]
       /\ cmax = inp[2]
       /\ cover = inp[3]
  /\ cpc = "call"
  /\ cstart = 0
  /\ cend = 0
  /\ cchunks = <<>>
  /\ cresult = <<>>
  /\ StoreIdle

\* if not text: return [] ; tokens = list(text); chunks = []; start = 0
ChunkEnter ==
  /\ cpc = "call"
  /\ IF ctext = <<>>
       THEN /\ cpc' = "done"
            /\ cresult' = <<>>
       ELSE /\ cpc' = "while"
            /\ cresult' = cresult
  /\ cstart' = 0
  /\ cchunks' = <<>>
  /\ UNCHANGED <<ctext, cmax, cover, cend>>
  /\ UNCHANGED storeVars

\* while start < n: end = min(...); chunks.append(...)
ChunkWhile ==
  /\ cpc = "while"
  /\ IF cstart < Len(ctext)
       THEN /\ cend' = WindowEnd(cstart, cmax, Len(ctext))
            /\ cchunks' = Append(cchunks, WindowChunk(ctext, cstart, cend'))
            /\ cpc' = "body"
            /\ cresult' = cresult
       ELSE /\ cpc' = "done"
            /\ cresult' = NonEmpty(cchunks)
            /\ UNCHANGED <<cend, cchunks>>
  /\ UNCHANGED <<ctext, cmax, cover, cstart>>
  /\ UNCHANGED storeVars

\* if end == n: break ; start = max(0, end - overlap)
ChunkAdvance ==
  /\ cpc = "body"
  /\ IF cend = Len(ctext)
       THEN /\ cpc' = "done"
            /\ cresult' = NonEmpty(cchunks)
            /\ cstart' = cstart
       ELSE /\ cpc' = "while"
            /\ cstart' = NextStart(cend, cover)
            /\ cresult' = cresult
  /\ UNCHANGED <<ctext, cmax, cover, cend, cchunks>>
  /\ UNCHANGED storeVars

NextChunk == ChunkEnter \/ ChunkWhile \/ ChunkAdvance

SpecChunk == InitChunk /\ [][NextChunk]_vars

\* the interpreter runs the loop to its end: no statement waits on anything
FairSpecChunk == SpecChunk /\ WF_vars(NextChunk)

\* ------------------------------------------------------------------------
\* The store: upload_pdf / ingest_pdf_to_db, step by step
\* ------------------------------------------------------------------------
\* the inodes still named by a directory entry or held open by a worker
Referenced(names, workers) ==
  {names[x] : x \in DOMAIN names} \cup {workers[w].fd : w \in Workers}

\* the file system with names and inodes, unreferenced inodes freed
MkFs(names, inodes, workers) ==
  [names |-> names,
   inodes |-> [i \in DOMAIN inodes \cap Referenced(names, workers) |-> inodes[i]]]

\* upload_pdf up to the call of ingest_pdf_to_db, then ingest_pdf_to_db up to
\* db.setdefault("documents", []).append(record): extraction, chunking,
\* embedding, the three validations, the record, load_db.
\* read_raises: the read of the store file inside load_db raises; it can only
\* do so when load_db is reached and the file exists
IngestCall(w, keys, texts, read_raises) ==
  /\ wk[w].pc = "idle"
  /\ nextId <= MaxDocs
  /\ \E key \in keys, filename \in FileNames, raw_text \in texts,
        chunker_raises \in BOOLEAN :
       LET db_path == UploadDbPath(DatabaseRoot, key[1], key[2])
           pdf_path == UploadFilePath(key[1], key[2], filename)
           chunks == IF raw_text = <<>> \/ chunker_raises THEN <<>>
                     ELSE ChunkText(raw_text, DefaultMaxChars, DefaultOverlap)
       IN \E vectors \in (IF chunks = <<>> THEN {<<>>} ELSE EmbedOutcomes(chunks)) :
            LET call == [IdleWorker EXCEPT !.user_id = key[1], !.session_id = key[2],
                                           !.db_path = db_path, !.raw_text = raw_text,
                                           !.chunks = chunks, !.vectors = vectors]
            IN IF raw_text = <<>> \/ chunks = <<>> \/ ~EmbeddingsValid(vectors, chunks)
                 THEN /\ ~read_raises
                      /\ wk' = [wk EXCEPT ![w] = [call EXCEPT !.pc = "done"]]
                      /\ nextId' = nextId
                 ELSE LET record == BuildRecord(Uuid(nextId), pdf_path, filename,
                                                chunks, vectors)
                          db == IF read_raises THEN LoadDbUnreadable(fs, db_path)
                                ELSE LoadDb(fs, db_path)
                      IN /\ read_raises => db_path \in DOMAIN fs.names
                         /\ wk' = [wk EXCEPT ![w] =
                                     [call EXCEPT !.pc = "loaded",
                                                  !.record = <<record>>,
                                                  !.db = Append(db, record)]]
                         /\ nextId' = nextId + 1
  /\ UNCHANGED <<fs, qres>>
  /\ UNCHANGED chunkVars

\* the call when every read of the store file succeeds
IngestBegin(w, keys, texts) == IngestCall(w, keys, texts, FALSE)

\* the call when load_db cannot read the store file
IngestBeginUnreadable(w, keys, texts) == IngestCall(w, keys, texts, TRUE)

\* save_db: with open(tmp, "w") as f: the file is created, or truncated
SaveOpen(w) ==
  /\ wk[w].pc = "loaded"
  /\ LET tmp == TmpPath(wk[w].db_path)
         exists == tmp \in DOMAIN fs.names
         ino == IF exists THEN fs.names[tmp]
                ELSE FreshInode(DOMAIN fs.inodes)
         workers == [wk EXCEPT ![w] = [@ EXCEPT !.pc = "writing", !.fd = ino, !.off = 0]]
     IN /\ wk' = workers
        /\ fs' = MkFs(With(fs.names, tmp, ino), With(fs.inodes, ino, <<>>), workers)
  /\ UNCHANGED <<nextId, qres>>
  /\ UNCHANGED chunkVars

\* save_db: json.dump(data, f): the next piece reaches the file; after the
\* last one the with block closes it
SaveWrite(w) ==
  /\ wk[w].pc = "writing"
  /\ LET data == JsonDump(wk[w].db)
         off == wk[w].off
         last == off + 1 = Len(data)
         workers == [wk EXCEPT ![w] =
                       IF last THEN [@ EXCEPT !.pc = "written", !.fd = 0, !.off = 0]
                       ELSE [@ EXCEPT !.off = off + 1]]
     IN /\ wk' = workers
        /\ fs' = MkFs(fs.names,
                      [fs.inodes EXCEPT ![wk[w].fd] = WriteAt(@, off, data[off + 1])],
                      workers)
  /\ UNCHANGED <<nextId, qres>>
  /\ UNCHANGED chunkVars

\* save_db: os.replace(tmp, db_path), which raises FileNotFoundError when tmp
\* is gone; then ingest_pdf_to_db returns doc_id
SaveReplace(w) ==
  /\ wk[w].pc = "written"
  /\ LET tmp == TmpPath(wk[w].db_path)
         exists == tmp \in DOMAIN fs.names
         workers == [wk EXCEPT ![w] =
                       [@ EXCEPT !.pc = "done", !.saved = exists,
                                 !.result = wk[w].record[1].document_id]]
     IN /\ wk' = workers
        /\ fs' = IF exists
                   THEN MkFs(Without(With(fs.names, wk[w].db_path, fs.names[tmp]), tmp),
                             fs.inodes, workers)
                   ELSE fs
  /\ UNCHANGED <<nextId, qres>>
  /\ UNCHANGED chunkVars

\* save_db: open or write raises (no space, no permission): the with block
\* closes the file, the except clause prints, and ingest_pdf_to_db goes on to
\* return doc_id
SaveError(w) ==
  /\ wk[w].pc \in {"loaded", "writing"}
  /\ LET workers == [wk EXCEPT ![w] =
                       [@ EXCEPT !.pc = "done", !.fd = 0, !.off = 0, !.saved = FALSE,
                                 !.result = wk[w].record[1].document_id]]
     IN /\ wk' = workers
        /\ fs' = MkFs(fs.names, fs.inodes, workers)
  /\ UNCHANGED <<nextId, qres>>
  /\ UNCHANGED chunkVars

\* upload_pdf returns its response; the worker takes the next request
UploadReturn(w) ==
  /\ wk[w].pc = "done"
  /\ wk' = [wk EXCEPT ![w] = IdleWorker]
  /\ UNCHANGED <<fs, nextId, qres>>
  /\ UNCHANGED chunkVars

\* the worker process is killed in the middle of a call and restarted
Crash(w) ==
  /\ wk[w].pc \in {"loaded", "writing", "written"}
  /\ LET workers == [wk EXCEPT ![w] = IdleWorker]
     IN /\ wk' = workers
        /\ fs' = MkFs(fs.names, fs.inodes, workers)
  /\ UNCHANGED <<nextId, qres>>
  /\ UNCHANGED chunkVars

\* ------------------------------------------------------------------------
\* retrieve: one call, with the embedding provider's answer as an input
\* ------------------------------------------------------------------------
Queries == {<<>>, <<"q">>}

\* retrieve(query, user_id, session_id, top_k).
\* The agent makes one call at a time. kind is the message returned:
\* "invalid_query" (Query must be a non-empty string.), "no_results" (No
\* results found in the knowledge base for user ..., session .... Please
\* upload a PDF document first.) or "formatted" (the hits, one entry each)
Retrieve(top_ks, qvecs) ==
  /\ qres = NoQuery
  /\ \E query \in Queries, key \in TenantKeys, top_k \in top_ks,
        embedded \in {<<>>} \cup {<<v>> : v \in qvecs} :
       LET path == GetUserDbPath(key[1], key[2], None)
           found == SearchDb(fs, path, embedded, top_k)
           call == [NoQuery EXCEPT !.user_id = key[1], !.session_id = key[2],
                                   !.top_k = top_k]
       IN qres' =
            IF query = <<>> THEN [call EXCEPT !.kind = "invalid_query"]
            ELSE [call EXCEPT !.kind = IF found.hits = <<>> THEN "no_results"
                                       ELSE "formatted",
                              !.embed = found.embed,
                              !.q = IF found.embed = "ok" THEN embedded ELSE <<>>,
                              !.hits = found.hits]
  /\ UNCHANGED <<fs, wk, nextId>>
  /\ UNCHANGED chunkVars

\* retrieve has returned and the agent has used its answer
RetrieveReturn ==
  /\ qres # NoQuery
  /\ qres' = NoQuery
  /\ UNCHANGED <<fs, wk, nextId>>
  /\ UNCHANGED chunkVars

\* the queries of the store specifications
StoreTopKs == {5}
StoreQueryVecs == {<<1, 0>>}

Init ==
  /\ ChunkIdle
  /\ StoreIdle

\* main.py runs one server process (uvicorn.run without workers): a handler
\* that does not await runs to its end before the next one starts, so one
\* upload or one query is in progress at a time
Next ==
  \/ qres = NoQuery /\ IngestBegin("w1", TenantKeys, ExtractedTexts)
  \/ SaveOpen("w1")
  \/ SaveWrite("w1")
  \/ SaveReplace("w1")
  \/ SaveError("w1")
  \/ UploadReturn("w1")
  \/ Crash("w1")
  \/ wk["w1"].pc = "idle" /\ Retrieve(StoreTopKs, StoreQueryVecs)
  \/ RetrieveReturn

Spec == Init /\ [][Next]_vars

\* one server process, as in Spec, on a disk whose reads can fail: load_db's
\* read of an existing store file may raise
NextUnreadable ==
  \/ qres = NoQuery /\ IngestBegin("w1", TenantKeys, ExtractedTexts)
  \/ qres = NoQuery /\ IngestBeginUnreadable("w1", TenantKeys, ExtractedTexts)
  \/ SaveOpen("w1")
  \/ SaveWrite("w1")
  \/ SaveReplace("w1")
  \/ SaveError("w1")
  \/ UploadReturn("w1")
  \/ Crash("w1")
  \/ wk["w1"].pc = "idle" /\ Retrieve(StoreTopKs, StoreQueryVecs)
  \/ RetrieveReturn

SpecUnreadable == Init /\ [][NextUnreadable]_vars

\* several server processes (uvicorn --workers, or several instances on one
\* disk) share the files: their calls interleave at every file operation
NextConcurrent ==
  \/ \E w \in Workers : IngestBegin(w, TenantKeys, {ShortText})
  \/ \E w \in Workers : SaveOpen(w)
  \/ \E w \in Workers : SaveWrite(w)
  \/ \E w \in Workers : SaveReplace(w)
  \/ \E w \in Workers : SaveError(w)
  \/ \E w \in Workers : UploadReturn(w)
  \/ \E w \in Workers : Crash(w)
  \/ Retrieve(StoreTopKs, StoreQueryVecs)
  \/ RetrieveReturn

SpecConcurrent == Init /\ [][NextConcurrent]_vars

\* ------------------------------------------------------------------------
\* The ranking specification: retrieve over every small store
\* ------------------------------------------------------------------------
\* the tenant whose store the ranking specification fills
RankTenant == <<1, 12>>

RankVecs == {<<1, 0>>, <<0, 1>>, <<0, 0>>}
RankQueryVecs == {<<1, 0>>, <<-1, 1>>, <<0, 0>>}
RankTopKs == {-1, 0, 1, 2, 5}

\* the documents ingest_pdf_to_db records for the k-th upload of RankTenant
\* with the given embeddings, one chunk per embedding
RankDoc(k, embeddings) ==
  BuildRecord(Uuid(k), UploadFilePath(RankTenant[1], RankTenant[2], <<"a.pdf">>),
              <<"a.pdf">>,
              [j \in 1..Len(embeddings) |-> <<"a">> \o Str(k) \o Str(j)],
              embeddings)

RECURSIVE SeqsOf(_, _)
SeqsOf(S, k) ==
  IF k = 0 THEN {<<>>}
  ELSE {Append(t, x) : t \in SeqsOf(S, k - 1), x \in S}

RankEmbeddings == SeqsOf(RankVecs, 1) \cup SeqsOf(RankVecs, 2)

RECURSIVE RankStoresOfLen(_)
RankStoresOfLen(n) ==
  IF n = 0 THEN {<<>>}
  ELSE {Append(st, RankDoc(n, e)) : st \in RankStoresOfLen(n - 1), e \in RankEmbeddings}

RankStores == UNION {RankStoresOfLen(n) : n \in 1..MaxStoreDocs}

\* a store left by earlier uploads of RankTenant, and no call in progress
InitRank ==
  /\ ChunkIdle
  /\ \E docs \in RankStores :
       /\ fs = [names |-> With(<<>>, UploadDbPath(DatabaseRoot, RankTenant[1], RankTenant[2]), 1),
                inodes |-> With(<<>>, 1, JsonDump(docs))]
       /\ nextId = Len(docs) + 1
  /\ wk = [w \in Workers |-> IdleWorker]
  /\ qres = NoQuery

NextRank ==
  \/ Retrieve(RankTopKs, RankQueryVecs)
  \/ RetrieveReturn

SpecRank == InitRank /\ [][NextRank]_vars

\* ------------------------------------------------------------------------
\* Store properties
\* ------------------------------------------------------------------------
\* the store path of a tenant, as upload_pdf writes it
StorePath(key) == UploadDbPath(DatabaseRoot, key[1], key[2])

\* the identifiers of the documents of a list
DocIds(docs) == {docs[i].document_id : i \in 1..Len(docs)}

\* a document as ingest_pdf_to_db records it: at least one chunk, chunk i
\* named {document_id}_{i}
FullyFormed(d) ==
  /\ Len(d.chunks) >= 1
  /\ \A i \in 1..Len(d.chunks) : d.chunks[i].chunk_id = ChunkId(d.document_id, i - 1)

\* C1 as stated: when two ingestions on the same store path have both returned
\* a document_id (their save_db calls having run to the end without raising),
\* the persisted store holds both documents.
C1_BothIngestionsPersisted ==
  \A w \in Workers, v \in Workers :
    (/\ w # v
     /\ wk[w].pc = "done" /\ wk[v].pc = "done"
     /\ wk[w].result # None /\ wk[v].result # None
     /\ wk[w].saved /\ wk[v].saved
     /\ wk[w].db_path = wk[v].db_path)
      => {wk[w].result, wk[v].result} \subseteq DocIds(LoadDb(fs, wk[w].db_path))

\* C2 as stated: in every reachable state the file at a tenant's store path is
\* absent or one complete serialization of fully formed documents, also while
\* save_db calls on the same path share the temporary file.
C2_StoreFileAlwaysComplete ==
  \A key \in TenantKeys :
    StorePath(key) \in DOMAIN fs.names =>
      LET data == JsonLoad(FileContent(fs, StorePath(key)))
      IN /\ data.ok
         /\ \A i \in 1..Len(data.documents) : FullyFormed(data.documents[i])

\* C3 as stated: whenever ingest_pdf_to_db has returned a document_id, a
\* document with that identifier is in the persisted store at db_path (a failed
\* write of the store makes the call report failure).
C3_ReturnedIdIsPersisted ==
  \A w \in Workers :
    (wk[w].pc = "done" /\ wk[w].result # None)
      => wk[w].result \in DocIds(LoadDb(fs, wk[w].db_path))

\* the inputs of a call fail one of the three validations
ValidationFails(call) ==
  \/ call.raw_text = <<>>
  \/ call.chunks = <<>>
  \/ call.vectors = <<>>
  \/ Len(call.vectors) # Len(call.chunks)

C4_Step ==
  \A w \in Workers :
    (wk'[w] # wk[w] /\ wk'[w].pc # "idle" /\ ValidationFails(wk'[w]))
      => /\ fs' = fs
         /\ wk'[w].pc = "done"
         /\ wk'[w].result = None

\* C4: a call of ingest_pdf_to_db whose extracted text is empty, whose chunking
\* yields no chunk, or whose embedding fails or returns another number of
\* vectors than chunks returns None, and no step of it changes any file.
C4_ValidationFailureWritesNothing == [][C4_Step]_vars

\* C4 witness: a call rejected for its vector count, beside a store that holds
\* a document
C4_Witness ==
  /\ wk["w1"].pc = "done"
  /\ wk["w1"].result = None
  /\ wk["w1"].vectors # <<>>
  /\ Len(wk["w1"].vectors) # Len(wk["w1"].chunks)
  /\ LoadDb(fs, wk["w1"].db_path) # <<>>

\* what a query of the tenant reads: the file at its store path, if any
StoreFile(files, key) ==
  LET path == GetUserDbPath(key[1], key[2], None)
  IN IF path \in DOMAIN files.names THEN <<FileContent(files, path)>> ELSE <<>>

\* every hit of the last query comes from an upload of the tenant that asked
HitsOfOwnTenant ==
  \A i \in 1..Len(qres.hits) :
    \E f \in FileNames :
      qres.hits[i].source = UploadFilePath(qres.user_id, qres.session_id, f)

\* a tenant's store changes only in a step of a call made for that tenant
OnlyOwnStoreChanges ==
  \A key \in TenantKeys :
    StoreFile(fs', key) # StoreFile(fs, key)
      => \E w \in Workers :
           /\ wk[w].pc # "idle"
           /\ <<wk[w].user_id, wk[w].session_id>> = key

C6_CountInvariant ==
  /\ \A w \in Workers :
       wk[w].record # <<>> =>
         LET call == wk[w]
             rec == call.record[1]
         IN /\ call.chunks = ChunkText(call.raw_text, DefaultMaxChars, DefaultOverlap)
            /\ Len(rec.chunks) = Len(call.chunks)
            /\ Len(rec.chunks) = Len(call.vectors)
            /\ \A i \in 1..Len(rec.chunks) :
                 /\ rec.chunks[i].chunk_id = ChunkId(rec.document_id, i - 1)
                 /\ rec.chunks[i].text = call.chunks[i]
                 /\ rec.chunks[i].embedding = call.vectors[i]
            /\ call.db[Len(call.db)] = rec
  /\ \A key \in TenantKeys :
       LET docs == LoadDb(fs, StorePath(key))
       IN \A i \in 1..Len(docs) : FullyFormed(docs[i])

\* C6 witness: an ingestion returned and its two-chunk document is persisted
C6_Witness ==
  /\ wk["w1"].pc = "done"
  /\ wk["w1"].result # None
  /\ \E d \in {LoadDb(fs, wk["w1"].db_path)[i] :
                 i \in 1..Len(LoadDb(fs, wk["w1"].db_path))} :
       /\ d.document_id = wk["w1"].result
       /\ Len(d.chunks) = 2

\* C7 as stated: a non-empty query whose embedding call fails gets a result
\* that differs from the one returned for a tenant without documents.
C7_EmbeddingFailureDistinguished ==
  qres.embed = "failed" => qres.kind # "no_results"

\* ------------------------------------------------------------------------
\* Ranking property
\* ------------------------------------------------------------------------
\* the chunks of a store: <<k, j>> is chunk j of document k
ChunkIndex(docs) ==
  UNION {{<<k, j>> : j \in 1..Len(docs[k].chunks)} : k \in 1..Len(docs)}

\* insertion order: documents in store order, chunks in document order
Before(x, y) == x[1] < y[1] \/ (x[1] = y[1] /\ x[2] < y[2])

ScoreOf(q, docs, x) == CosineSimilarity(q, docs[x[1]].chunks[x[2]].embedding)

\* how many chunks come before chunk x in the ranking
RankOf(q, docs, x) ==
  Cardinality({y \in ChunkIndex(docs) :
                 \/ ScoreGreater(ScoreOf(q, docs, y), ScoreOf(q, docs, x))
                 \/ (ScoreOf(q, docs, y) = ScoreOf(q, docs, x) /\ Before(y, x))})

IsRanking(hits, q, docs, top_k) ==
  /\ Len(hits) = Min(Max(1, top_k), Cardinality(ChunkIndex(docs)))
  /\ \A x \in ChunkIndex(docs) :
       RankOf(q, docs, x) < Len(hits) =>
         hits[RankOf(q, docs, x) + 1] =
           [score |-> ScoreOf(q, docs, x),
            text |-> docs[x[1]].chunks[x[2]].text,
            source |-> docs[x[1]].source_path]

\* C8: when the query embedding succeeds on a non-empty store, search_db
\* returns the first min(max(1, top_k), total_chunks) chunks of the store by
\* descending score, equal scores in insertion order, for top_k of any sign;
\* so at least one hit comes back.
C8_RankingResult ==
  qres.embed = "ok" =>
    LET docs == LoadDb(fs, GetUserDbPath(qres.user_id, qres.session_id, None))
    IN /\ docs # <<>>
       /\ IsRanking(qres.hits, qres.q[1], docs, qres.top_k)
       /\ Len(qres.hits) >= 1
       /\ qres.kind = "formatted"

\* C8 witness: top_k = 0 on a store of several chunks, the one hit tied with
\* another chunk
C8_Witness ==
  /\ qres.embed = "ok"
  /\ qres.top_k = 0
  /\ Len(qres.hits) = 1
  /\ LET docs == LoadDb(fs, GetUserDbPath(qres.user_id, qres.session_id, None))
     IN Cardinality({x \in ChunkIndex(docs) :
                       ScoreOf(qres.q[1], docs, x) = qres.hits[1].score}) >= 2

\* ------------------------------------------------------------------------
\* Chunker properties
\* ------------------------------------------------------------------------
\* the recursive form of the loop, used by the ingestion model, computes what
\* the loop leaves statement by statement
ChunkLoopAgrees ==
  cpc = "done" => cresult = ChunkText(ctext, cmax, cover)

\* the offsets at which chunk_text cuts a text of n characters: window i
\* exists when the window before it stopped short of n
WindowStarts(n, max_chars, overlap) ==
  {i * (max_chars - overlap) : i \in
     {j \in 0..n : j = 0 \/ (j - 1) * (max_chars - overlap) + max_chars < n}}

\* no window starts or ends with a whitespace character
CleanWindows(text, max_chars, overlap) ==
  \A s \in WindowStarts(Len(text), max_chars, overlap) :
    Len(text) > 0 =>
      /\ ~IsSpace(text[s + 1])
      /\ ~IsSpace(text[Min(s + max_chars, Len(text))])

\* the chunks joined, each but the first without its leading overlap characters
RECURSIVE JoinWithoutOverlap(_, _)
JoinWithoutOverlap(chunks, overlap) ==
  IF chunks = <<>> THEN <<>>
  ELSE IF Len(chunks) = 1 THEN chunks[1]
  ELSE JoinWithoutOverlap(SubSeq(chunks, 1, Len(chunks) - 1), overlap)
         \o SubSeq(chunks[Len(chunks)], overlap + 1, Len(chunks[Len(chunks)]))

\* C9 as stated: for every text and every valid (max_chars, overlap) the chunks
\* returned by chunk_text, joined with the overlaps removed, are the text.
C9_CoverageEveryText ==
  cpc = "done" => JoinWithoutOverlap(cresult, cover) = ctext

\* C9 as amended: the chunks joined with the overlaps removed are the text
\* whenever no window of the text starts or ends with a whitespace character
\* (chunk_text strips every window and drops the empty ones).
C9_CoverageCleanWindows ==
  (cpc = "done" /\ CleanWindows(ctext, cmax, cover))
    => JoinWithoutOverlap(cresult, cover) = ctext

\* C9 witness: a call that returned several overlapping chunks of a text with
\* whitespace inside a window
C9_Witness ==
  /\ cpc = "done"
  /\ CleanWindows(ctext, cmax, cover)
  /\ Len(cresult) >= 2
  /\ cover > 0
  /\ \E i \in 1..Len(ctext) : IsSpace(ctext[i])

\* where the loop stands, window by window
ChunkWindowsInv ==
  /\ cpc = "while" =>
       /\ cstart = Len(cchunks) * (cmax - cover)
       /\ cstart < Len(ctext)
  /\ cpc = "body" =>
       /\ cstart = (Len(cchunks) - 1) * (cmax - cover)
       /\ cstart < cend
       /\ cend - cstart <= cmax
       /\ cend <= Len(ctext)
  /\ (cpc = "done" /\ ctext # <<>>) => cend = Len(ctext)
  /\ (cpc = "done" /\ Len(ctext) = ScenarioLen
        /\ cmax = DefaultMaxChars /\ cover = DefaultOverlap)
       => Len(cchunks) = 3

\* every pass of the loop moves start forward
StartIncreases ==
  (cpc = "body" /\ cpc' = "while") => cstart' > cstart

\* C10: for every non-empty text and valid (max_chars, overlap) the loop of
\* chunk_text terminates, window i starts at i * (max_chars - overlap) and
\* spans at most max_chars characters, the starts strictly increase, the last
\* window ends at n, and 2500 characters with (1200, 150) give 3 windows.
C10_ChunkerProgress ==
  /\ []ChunkWindowsInv
  /\ [][StartIncreases]_vars
  /\ <>(cpc = "done")

\* C10 witness: the 2500-character text cut into its 3 windows
C10_Witness ==
  /\ cpc = "done"
  /\ Len(ctext) = ScenarioLen
  /\ Len(cchunks) = 3
  /\ cend = ScenarioLen

\* ------------------------------------------------------------------------
\* The store as an append-only sequence
\* ------------------------------------------------------------------------
\* the persisted document sequence of a tenant: what a read of its store file
\* yields
Persisted(files, key) == LoadDb(files, StorePath(key))

\* the step in which an ingestion for tenant key succeeds: os.replace has
\* installed the file save_db wrote
IngestSucceeds(key) ==
  /\ wk["w1"].pc = "written"
  /\ wk'["w1"].pc = "done"
  /\ wk'["w1"].saved
  /\ <<wk["w1"].user_id, wk["w1"].session_id>> = key

AppendOnlyStep ==
  \A key \in TenantKeys :
    IF IngestSucceeds(key)
      THEN Persisted(fs', key) = Append(Persisted(fs, key), wk["w1"].record[1])
      ELSE Persisted(fs', key) = Persisted(fs, key)

\* C11 as stated: with operations on a tenant executed one at a time, each
\* successful ingestion leaves the persisted document sequence equal to the
\* one persisted before it with exactly the new document appended at the
\* end, and every other step (queries, failed ingestions) leaves it
\* unchanged, also when load_db finds the persisted file unreadable.
C11_StoreAppendOnly == [][AppendOnlyStep]_vars

====
